---------------------------- MODULE Spec2Model ----------------------------
(***************************************************************************)
(* QLess: facility check-in tracker (services/queue_service.py,            *)
(* services/facility_service.py, views/student_view.py).                   *)
(*                                                                         *)
(* The hosted realtime database is modelled as four dictionaries keyed by  *)
(* path segment: facilities/<id>, queues/<id>, active_queues/<id>/<uid>    *)
(* and history/<id>/<push key>.  A dictionary is a function whose DOMAIN   *)
(* is the set of keys that exist; a node with no children does not exist.  *)
(* Strings that the code transforms (facility names and identifiers) are   *)
(* tuples of one-character strings.  Timestamps of the tracker are not     *)
(* modelled.                                                               *)
(*                                                                         *)
(* Accounts and sessions (auth/authentication.py, views/login_view.py):    *)
(* users/<uid> is a fifth dictionary, the browser session is               *)
(* st.session_state.user, and the wall clock is a counter of minutes.      *)
(***************************************************************************)
EXTENDS Integers, Sequences, FiniteSets, TLC

VARIABLES
    facilities,     \* facilities/<id>    : id -> [id, name, capacity, active]
    queues,         \* queues/<id>        : id -> [count]
    active_queues,  \* active_queues/<id> : id -> set of user ids (non-empty)
    history,        \* history/<id>       : id -> sequence of entries, in push order
    last,           \* the last completed service call and what it returned
    prev,           \* the store as it was when that call started
    since,          \* per user: the last successful check-in not yet checked out
    procs,          \* per request worker: position inside a handler and its locals
    users,          \* users/<uid>       : uid -> dictionary of the record's fields
    session,        \* st.session_state.user: the session data of login, or NoSession
    now,            \* datetime.now(), in minutes
    auth_last,      \* the last completed call of the auth manager and what it returned
    auth_prev,      \* users, session and clock as they were when that call started
    calc            \* the last read-only query or codec call and what it returned

store == <<facilities, queues, active_queues, history>>
tracker == <<facilities, queues, active_queues, history, last, prev, since, procs>>
accounts == <<users, session, now, auth_last, auth_prev>>
vars  == <<facilities, queues, active_queues, history, last, prev, since, procs,
           users, session, now, auth_last, auth_prev, calc>>

-----------------------------------------------------------------------------
(* Bounds and input sets *)

MaxHistory == 3     \* history entries pushed in a run, over all facilities
MaxCalls   == 3     \* service calls started in a step-by-step run, over all workers
MaxFaults  == 1     \* store failures injected in a run

Users      == {"u1", "u2"}
NoUser     == "None"                    \* user_id=None (anonymous caller)
Callers    == Users \cup {NoUser}
Actors     == {"admin1"}                \* st.session_state['user']['uid'] of the admin
Workers    == {"w1", "w2"}

Names      == { <<"A", " ", "b">>, <<"a", "-", "b">>, <<"G">> }
Capacities == {1}
NoFacility == <<>>                      \* current_facility = None

-----------------------------------------------------------------------------
(* Facility identifier derivation: name.lower().replace(' ','_').replace('-','_') *)

lower_char(c) ==
    CASE c = "A" -> "a"
      [] c = "B" -> "b"
      [] c = "G" -> "g"
      [] OTHER   -> c

lower(s) == [i \in DOMAIN s |-> lower_char(s[i])]

replace(s, a, b) == [i \in DOMAIN s |-> IF s[i] = a THEN b ELSE s[i]]

facility_id_of(name) == replace(replace(lower(name), " ", "_"), "-", "_")

FacilityIds == {facility_id_of(n) : n \in Names}

-----------------------------------------------------------------------------
(* The store as a value, and the database client's primitives *)

DB == [facilities    |-> facilities,
       queues        |-> queues,
       active_queues |-> active_queues,
       history       |-> history]

EmptyDict == [k \in {} |-> {}]

EmptyDB == [facilities |-> EmptyDict, queues |-> EmptyDict,
            active_queues |-> EmptyDict, history |-> EmptyDict]

\* ref.set(value) / ref.update(value) on one child of a dictionary
dict_set(d, k, v) == [x \in DOMAIN d \cup {k} |-> IF x = k THEN v ELSE d[x]]

\* d.get(k, default)
dict_get(d, k, default) == IF k \in DOMAIN d THEN d[k] ELSE default

\* ref.delete() of one child
dict_delete(d, k) == [x \in DOMAIN d \ {k} |-> d[x]]

\* queue_ref.get() or {}  followed by  .get('count', 0)
queue_count(db, f) == IF f \in DOMAIN db.queues THEN db.queues[f].count ELSE 0

\* the users under active_queues/<f>
active_users(db, f) ==
    IF f \in DOMAIN db.active_queues THEN db.active_queues[f] ELSE {}

\* the entries under history/<f>
history_of(db, f) == IF f \in DOMAIN db.history THEN db.history[f] ELSE <<>>

\* queue_ref.update({'count': n, 'last_updated': ...})  /  queue_ref.set({...})
queue_write(db, f, n) ==
    [db EXCEPT !.queues = dict_set(db.queues, f, [count |-> n])]

\* self.history_ref.child(f).push(entry)
history_push(db, f, entry) ==
    [db EXCEPT !.history = dict_set(db.history, f, Append(history_of(db, f), entry))]

\* self.active_queues_ref.child(f).child(u).set({...})
active_set(db, f, u) ==
    [db EXCEPT !.active_queues = dict_set(db.active_queues, f, active_users(db, f) \cup {u})]

\* self.active_queues_ref.child(f).child(u).delete(): an emptied node disappears
active_delete(db, f, u) ==
    [db EXCEPT !.active_queues =
        IF active_users(db, f) \ {u} = {}
        THEN dict_delete(db.active_queues, f)
        ELSE dict_set(db.active_queues, f, active_users(db, f) \ {u})]

\* self.active_queues_ref.child(f).delete()
active_clear(db, f) ==
    [db EXCEPT !.active_queues = dict_delete(db.active_queues, f)]

HistoryTotal(db) ==
    LET RECURSIVE Sum(_)
        Sum(S) == IF S = {} THEN 0
                  ELSE LET f == CHOOSE x \in S : TRUE
                       IN Len(db.history[f]) + Sum(S \ {f})
    IN Sum(DOMAIN db.history)

-----------------------------------------------------------------------------
(* History entries and call results *)

Entry(action, count, user_id, admin_id) ==
    [action |-> action, count |-> count, user_id |-> user_id, admin_id |-> admin_id]

None    == <<>>             \* a returned count of None
Some(n) == <<n>>

\* what a handler returns, with the store it leaves behind
Outcome(db, ok, ret, msg, other) ==
    [db |-> db, ok |-> ok, ret |-> ret, msg |-> msg, other |-> other]


\* the messages the handlers return
CheckedInOk          == "Checked in successfully"
AlreadyCheckedInHere == "You are already checked in to this facility"
AlreadyElsewhere     == "You are already checked in to <name>. Please check out first."
CheckedOutOk         == "Checked out successfully"
NotCheckedInAnywhere == "You are not checked in to any facility"
CheckedInElsewhere   == "You are checked in to <name>, not this facility"
QueueAlreadyEmpty    == "Queue is already empty"
ResetOk              == "Queue reset successfully"
CreatedOk            == "Facility created successfully"
AlreadyExists        == "Facility with this name already exists"
DeletedOk            == "Facility deleted successfully"
RestoredOk           == "Facility restored successfully"
FacilityNotFound     == "Facility not found"
Failed               == "failed: <exception>"

-----------------------------------------------------------------------------
(* services/queue_service.py *)

\* The (is_checked_in, facility_id) pairs is_user_checked_in can return: the
\* first facility, in the iteration order of the dictionary the store
\* returned, whose active users contain user_id.  That order is the store's,
\* so every facility holding the user is a possible answer.
is_user_checked_in(db, user_id) ==
    LET hits == {f \in DOMAIN db.active_queues : user_id \in db.active_queues[f]}
    IN  IF hits = {}
        THEN {[found |-> FALSE, fid |-> NoFacility]}
        ELSE {[found |-> TRUE, fid |-> f] : f \in hits}

\* facility['name'] if facility else current_facility
facility_name_or_id(db, f) ==
    IF f \in DOMAIN db.facilities THEN db.facilities[f].name ELSE f

FacilityFull == "Facility is full"

\* variant: the history entry carries the count read before the increment
checkin_apply_logs_old_count(db, facility_id, user_id) ==
    LET new_count == queue_count(db, facility_id) + 1
        d1 == queue_write(db, facility_id, new_count)
        d2 == history_push(d1, facility_id, Entry("checkin", new_count - 1, user_id, NoUser))
        d3 == IF user_id # NoUser THEN active_set(d2, facility_id, user_id) ELSE d2
    IN  Outcome(d3, TRUE, Some(new_count), CheckedInOk, NoFacility)

\* variant: a check-in at a facility whose count has reached its capacity is refused
checkin_apply_capped(db, facility_id, user_id) ==
    LET new_count == queue_count(db, facility_id) + 1
        d1 == queue_write(db, facility_id, new_count)
        d2 == history_push(d1, facility_id, Entry("checkin", new_count, user_id, NoUser))
        d3 == IF user_id # NoUser THEN active_set(d2, facility_id, user_id) ELSE d2
    IN  IF /\ facility_id \in DOMAIN db.facilities
           /\ queue_count(db, facility_id) >= db.facilities[facility_id].capacity
        THEN Outcome(db, FALSE, None, FacilityFull, NoFacility)
        ELSE Outcome(d3, TRUE, Some(new_count), CheckedInOk, NoFacility)

\* checkin, lines 80-114: count + 1, history entry, active record
checkin_apply(db, facility_id, user_id) ==
    LET new_count == queue_count(db, facility_id) + 1
        d1 == queue_write(db, facility_id, new_count)
        d2 == history_push(d1, facility_id, Entry("checkin", new_count, user_id, NoUser))
        d3 == IF user_id # NoUser THEN active_set(d2, facility_id, user_id) ELSE d2
    IN  Outcome(d3, TRUE, Some(new_count), CheckedInOk, NoFacility)

\* variant: only a second check-in at the same facility is refused
checkin_after_same_only(db, facility_id, user_id, r) ==
    IF user_id # NoUser /\ r.found /\ r.fid = facility_id
    THEN Outcome(db, FALSE, None, AlreadyCheckedInHere, NoFacility)
    ELSE checkin_apply(db, facility_id, user_id)

\* checkin, lines 68-78: the outcome for one answer of is_user_checked_in
checkin_after(db, facility_id, user_id, r) ==
    IF user_id # NoUser /\ r.found
    THEN IF r.fid = facility_id
         THEN Outcome(db, FALSE, None, AlreadyCheckedInHere, NoFacility)
         ELSE Outcome(db, FALSE, None, AlreadyElsewhere, facility_name_or_id(db, r.fid))
    ELSE checkin_apply(db, facility_id, user_id)

checkin(db, facility_id, user_id) ==
    {checkin_after(db, facility_id, user_id, r) : r \in is_user_checked_in(db, user_id)}

\* variant: the guard tests < 0
queue_empty_strict(current_count) == current_count < 0

\* checkout, line 137: if current_count <= 0
queue_empty(current_count) == current_count <= 0

\* variant: the active record is not removed
checkout_apply_keeps_active(db, facility_id, user_id) ==
    LET current_count == queue_count(db, facility_id)
        new_count == current_count - 1
        d1 == queue_write(db, facility_id, new_count)
        d2 == history_push(d1, facility_id, Entry("checkout", new_count, user_id, NoUser))
    IN  IF current_count <= 0
        THEN Outcome(db, FALSE, Some(0), QueueAlreadyEmpty, NoFacility)
        ELSE Outcome(d2, TRUE, Some(new_count), CheckedOutOk, NoFacility)

\* checkout, lines 133-166
checkout_apply(db, facility_id, user_id) ==
    LET current_count == queue_count(db, facility_id)
        new_count == current_count - 1
        d1 == queue_write(db, facility_id, new_count)
        d2 == history_push(d1, facility_id, Entry("checkout", new_count, user_id, NoUser))
        d3 == IF user_id # NoUser THEN active_delete(d2, facility_id, user_id) ELSE d2
    IN  IF queue_empty(current_count)
        THEN Outcome(db, FALSE, Some(0), QueueAlreadyEmpty, NoFacility)
        ELSE Outcome(d3, TRUE, Some(new_count), CheckedOutOk, NoFacility)

\* variant: the facility of the active record is not compared
checkout_after_any_facility(db, facility_id, user_id, r) ==
    IF user_id # NoUser /\ ~r.found
    THEN Outcome(db, FALSE, None, NotCheckedInAnywhere, NoFacility)
    ELSE checkout_apply(db, facility_id, user_id)

\* checkout, lines 123-131: the outcome for one answer of is_user_checked_in
checkout_after(db, facility_id, user_id, r) ==
    IF user_id # NoUser /\ ~r.found
    THEN Outcome(db, FALSE, None, NotCheckedInAnywhere, NoFacility)
    ELSE IF user_id # NoUser /\ r.fid # facility_id
    THEN Outcome(db, FALSE, None, CheckedInElsewhere, facility_name_or_id(db, r.fid))
    ELSE checkout_apply(db, facility_id, user_id)

checkout(db, facility_id, user_id) ==
    {checkout_after(db, facility_id, user_id, r) : r \in is_user_checked_in(db, user_id)}

\* variant: the active records are not cleared
reset_queue_keeps_active(db, facility_id, admin_id) ==
    LET d1 == queue_write(db, facility_id, 0)
        d3 == history_push(d1, facility_id, Entry("reset", 0, NoUser, admin_id))
    IN  Outcome(d3, TRUE, None, ResetOk, NoFacility)

\* reset_queue, lines 194-217
reset_queue(db, facility_id, admin_id) ==
    LET d1 == queue_write(db, facility_id, 0)
        d2 == active_clear(d1, facility_id)
        d3 == history_push(d2, facility_id, Entry("reset", 0, NoUser, admin_id))
    IN  Outcome(d3, TRUE, None, ResetOk, NoFacility)

get_user_current_facility(db, user_id) ==
    {r.fid : r \in is_user_checked_in(db, user_id)}

\* limit=100 in the signature of get_queue_history
DefaultLimit == 100

\* x.get('timestamp', ''): ISO timestamps of one format order as their
\* instants do, and the empty string orders before all of them
NoStamp == 0

timestamp_key(x) == dict_get(x, "timestamp", NoStamp)

\* {'id': key, **value} for every child of history/<f>, in key order; push
\* keys order as the pushes did
history_list(db, facility_id) ==
    LET h == history_of(db, facility_id)
    IN  [i \in 1..Len(h) |-> dict_set(h[i], "id", i)]

\* list.sort(key=timestamp, reverse=True): descending, and stable, so entries
\* of equal timestamp keep their order
RECURSIVE sort_recent_first(_)
sort_recent_first(l) ==
    IF l = <<>> THEN <<>>
    ELSE LET init == sort_recent_first(SubSeq(l, 1, Len(l) - 1))
             x == l[Len(l)]
             k == Cardinality({i \in 1..Len(init) :
                                  timestamp_key(init[i]) >= timestamp_key(x)})
         IN  SubSeq(init, 1, k) \o <<x>> \o SubSeq(init, k + 1, Len(init))

\* l[:limit]
slice_to(l, limit) ==
    IF limit >= 0 THEN SubSeq(l, 1, IF limit < Len(l) THEN limit ELSE Len(l))
    ELSE SubSeq(l, 1, IF Len(l) + limit > 0 THEN Len(l) + limit ELSE 0)

\* variant: the list is truncated before it is sorted
get_queue_history_truncates_first(db, facility_id, limit) ==
    IF history_of(db, facility_id) = <<>> THEN <<>>
    ELSE sort_recent_first(slice_to(history_list(db, facility_id), limit))

\* get_queue_history, lines 219-246
get_queue_history(db, facility_id, limit) ==
    IF history_of(db, facility_id) = <<>> THEN <<>>
    ELSE slice_to(sort_recent_first(history_list(db, facility_id)), limit)

-----------------------------------------------------------------------------
(* services/facility_service.py *)

facility_write(db, f, rec) ==
    [db EXCEPT !.facilities = dict_set(db.facilities, f, rec)]

\* variant: only an active record blocks the identifier
create_facility_active_only(db, name, capacity) ==
    LET facility_id == facility_id_of(name)
        facility_data == [id |-> facility_id, name |-> name,
                          capacity |-> capacity, active |-> TRUE]
        d1 == facility_write(db, facility_id, facility_data)
        d2 == queue_write(d1, facility_id, 0)
    IN  IF facility_id \in DOMAIN db.facilities /\ db.facilities[facility_id].active
        THEN Outcome(db, FALSE, None, AlreadyExists, NoFacility)
        ELSE Outcome(d2, TRUE, None, CreatedOk, NoFacility)

\* create_facility, lines 15-56
create_facility(db, name, capacity) ==
    LET facility_id == facility_id_of(name)
        facility_data == [id |-> facility_id, name |-> name,
                          capacity |-> capacity, active |-> TRUE]
        d1 == facility_write(db, facility_id, facility_data)
        d2 == queue_write(d1, facility_id, 0)
    IN  IF facility_id \in DOMAIN db.facilities
        THEN Outcome(db, FALSE, None, AlreadyExists, NoFacility)
        ELSE Outcome(d2, TRUE, None, CreatedOk, NoFacility)

\* facility_ref.update({'active': flag, ...})
set_active(db, facility_id, flag, msg) ==
    IF facility_id \notin DOMAIN db.facilities
    THEN Outcome(db, FALSE, None, FacilityNotFound, NoFacility)
    ELSE Outcome(facility_write(db, facility_id,
                    [db.facilities[facility_id] EXCEPT !.active = flag]),
                 TRUE, None, msg, NoFacility)

UpdatedOk == "Facility updated successfully"

\* d.update(u): the fields of u replace or extend those of d
dict_merge(d, u) == [k \in DOMAIN d \cup DOMAIN u |-> IF k \in DOMAIN u THEN u[k] ELSE d[k]]

\* variant: the record is set to the provided fields instead of merged
update_facility_replaces(db, facility_id, updates, by) ==
    IF facility_id \notin DOMAIN db.facilities
    THEN Outcome(db, FALSE, None, FacilityNotFound, updates)
    ELSE Outcome(facility_write(db, facility_id, dict_set(updates, "updated_by", by)),
                 TRUE, None, UpdatedOk, updates)

\* update_facility, lines 101-117; the call is returned with the updates it carried
update_facility(db, facility_id, updates, by) ==
    IF facility_id \notin DOMAIN db.facilities
    THEN Outcome(db, FALSE, None, FacilityNotFound, updates)
    ELSE Outcome(facility_write(db, facility_id,
                    dict_merge(db.facilities[facility_id], dict_set(updates, "updated_by", by))),
                 TRUE, None, UpdatedOk, updates)

\* variant: the soft delete also empties the facility's queue
delete_facility_clears_queue(db, facility_id) ==
    LET out == set_active(db, facility_id, FALSE, DeletedOk)
    IN  IF out.ok
        THEN [out EXCEPT !.db = active_clear(queue_write(out.db, facility_id, 0), facility_id)]
        ELSE out

\* delete_facility, lines 119-137
delete_facility(db, facility_id) == set_active(db, facility_id, FALSE, DeletedOk)

restore_facility(db, facility_id) == set_active(db, facility_id, TRUE, RestoredOk)

get_facility(db, facility_id) == facility_id \in DOMAIN db.facilities

\* a quotient of integers, kept exact: count / capacity and its multiples
Ratio(n, d) == [num |-> n, den |-> d]

ratio_times(r, k) == [num |-> r.num * k, den |-> r.den]

\* r < k and r = q for quotients of positive denominator
ratio_lt(r, k) == r.num < k * r.den

ratio_eq(r, q) == r.num * q.den = q.num * r.den

StatusLow      == [level |-> "low",      text |-> "Low"]
StatusModerate == [level |-> "moderate", text |-> "Moderate"]
StatusHigh     == [level |-> "high",     text |-> "High"]

\* variant: an occupancy of exactly 40 or 70 percent falls in the lower bucket
get_status_inclusive(count, capacity) ==
    LET occupancy == IF capacity > 0 THEN ratio_times(Ratio(count, capacity), 100)
                     ELSE Ratio(0, 1)
    IN  IF occupancy.num <= 40 * occupancy.den THEN StatusLow
        ELSE IF occupancy.num <= 70 * occupancy.den THEN StatusModerate
        ELSE StatusHigh

\* _get_status, lines 181-190
get_status(count, capacity) ==
    LET occupancy == IF capacity > 0 THEN ratio_times(Ratio(count, capacity), 100)
                     ELSE Ratio(0, 1)
    IN  IF ratio_lt(occupancy, 40) THEN StatusLow
        ELSE IF ratio_lt(occupancy, 70) THEN StatusModerate
        ELSE StatusHigh

\* get_facility_stats, lines 157-179; None when there is no facility record
get_facility_stats(db, facility_id) ==
    IF ~get_facility(db, facility_id) THEN None
    ELSE LET facility == db.facilities[facility_id]
             current_count == queue_count(db, facility_id)
             capacity == facility.capacity
         IN  Some(
             [current_count |-> current_count,
              capacity |-> capacity,
              occupancy_percentage |->
                  IF capacity > 0 THEN ratio_times(Ratio(current_count, capacity), 100)
                  ELSE Ratio(0, 1),
              wait_time |-> current_count * facility.avg_time_per_person,
              status |-> get_status(current_count, capacity)])

\* the code point of a character, as Python compares strings
ord(c) ==
    CASE c = " " -> 32
      [] c = "-" -> 45
      [] c = "A" -> 65
      [] c = "B" -> 66
      [] c = "G" -> 71
      [] c = "_" -> 95
      [] c = "a" -> 97
      [] c = "b" -> 98
      [] c = "g" -> 103
      [] OTHER   -> 0

\* s <= t for Python strings
str_le(s, t) ==
    LET diff == {i \in DOMAIN s \cap DOMAIN t : s[i] # t[i]}
    IN  IF diff = {} THEN Len(s) <= Len(t)
        ELSE LET i == CHOOSE i \in diff : \A j \in diff : i <= j
             IN  ord(s[i]) < ord(t[i])

\* get_all_facilities, lines 71-81: the entry listed for one record
facility_entry(fid, data) ==
    [id |-> fid, name |-> data.name, capacity |-> data.capacity, active |-> data.active]

\* facility_list.sort(key=lambda x: x['name'])
sorted_by_name(db, ids) ==
    CHOOSE seq \in [1..Cardinality(ids) -> ids] :
        /\ \A i, j \in DOMAIN seq : i # j => seq[i] # seq[j]
        /\ \A i, j \in DOMAIN seq :
              i < j => str_le(db.facilities[seq[i]].name, db.facilities[seq[j]].name)

\* variant: inactive facilities are listed whatever the flag
get_all_facilities_unfiltered(db, include_inactive) ==
    LET ids == DOMAIN db.facilities
        seq == sorted_by_name(db, ids)
    IN  [i \in 1..Cardinality(ids) |-> facility_entry(seq[i], db.facilities[seq[i]])]

\* get_all_facilities, lines 58-86
get_all_facilities(db, include_inactive) ==
    LET ids == {fid \in DOMAIN db.facilities :
                   include_inactive \/ db.facilities[fid].active}
        seq == sorted_by_name(db, ids)
    IN  [i \in 1..Cardinality(ids) |-> facility_entry(seq[i], db.facilities[seq[i]])]


-----------------------------------------------------------------------------
(* views/student_view.py: the overview of all facilities *)

\* services/queue_service.py get_all_queue_status, lines 248-267
get_all_queue_status(db) == [f \in DOMAIN db.queues |-> [count |-> db.queues[f].count]]

\* variant: an occupancy of exactly 40 or 70 percent falls in the lower bucket
overview_status_at_most(count, capacity) ==
    LET occupancy == IF capacity > 0 THEN ratio_times(Ratio(count, capacity), 100)
                     ELSE Ratio(0, 1)
    IN  IF occupancy.num <= 40 * occupancy.den THEN "Low"
        ELSE IF occupancy.num <= 70 * occupancy.den THEN "Moderate"
        ELSE "High"

\* display_all_facilities_overview, lines 184-196: status_text
overview_status(count, capacity) ==
    LET occupancy == IF capacity > 0 THEN ratio_times(Ratio(count, capacity), 100)
                     ELSE Ratio(0, 1)
    IN  IF ratio_lt(occupancy, 40) THEN "Low"
        ELSE IF ratio_lt(occupancy, 70) THEN "Moderate"
        ELSE "High"

\* display_all_facilities_overview, lines 168-197: one card per listed
\* facility, with the count read from get_all_queue_status
display_all_facilities_overview(db, listed) ==
    LET all_status == get_all_queue_status(db)
    IN  [i \in 1..Len(listed) |->
            LET status_data == dict_get(all_status, listed[i].id, [count |-> 0])
                count == dict_get(status_data, "count", 0)
            IN  [id |-> listed[i].id, count |-> count,
                 status_text |-> overview_status(count, listed[i].capacity)]]

-----------------------------------------------------------------------------
(* services/qr_service.py *)

QrPrefix == <<"Q", "L", "E", "S", "S", "_", "C", "H", "E", "C", "K", "I", "N", ":">>

\* app_url followed by "/?facility="
AppUrlQuery == <<"h", "t", "t", "p", ":", "/", "/", "1", "9", "2", ".", "1", "6", "8",
                 ".", "9", "1", ".", "5", "4", ":", "8", "5", "0", "1",
                 "/", "?", "f", "a", "c", "i", "l", "i", "t", "y", "=">>

ValidQr   == "Valid QR code"
InvalidQr == "Invalid QR code"

\* a facility_id of None, told apart from the empty string
NoneText == <<"None">>

\* generate_facility_qr, lines 12-36: the text the image carries
generate_facility_qr(facility_id) == AppUrlQuery \o facility_id

\* str.startswith
startswith(s, p) == Len(s) >= Len(p) /\ SubSeq(s, 1, Len(p)) = p

\* str.find from position i: the first position of sep at or after i, else 0
find(s, sep, i) ==
    LET hits == {j \in i..(Len(s) - Len(sep) + 1) : SubSeq(s, j, j + Len(sep) - 1) = sep}
    IN  IF hits = {} THEN 0 ELSE CHOOSE j \in hits : \A k \in hits : j <= k

\* str.split(sep): the pieces between the occurrences of sep, left to right
RECURSIVE split(_, _)
split(s, sep) ==
    LET j == find(s, sep, 1)
    IN  IF j = 0 THEN <<s>>
        ELSE <<SubSeq(s, 1, j - 1)>> \o split(SubSeq(s, j + Len(sep), Len(s)), sep)

QrResult(valid, facility_id, msg) == [valid |-> valid, facility_id |-> facility_id, msg |-> msg]

\* validate_qr_data, lines 38-47; split yields two pieces or more once the
\* prefix is there, so the except branch is never taken
validate_qr_data(qr_data) ==
    IF qr_data = <<>> \/ ~startswith(qr_data, QrPrefix)
    THEN QrResult(FALSE, NoneText, InvalidQr)
    ELSE QrResult(TRUE, split(qr_data, QrPrefix)[2], ValidQr)

-----------------------------------------------------------------------------
(* auth/authentication.py *)

\* config: the role names (the values are those views/login_view.py shows)
ROLES == [STUDENT |-> "student", ADMIN |-> "admin", SUPER_ADMIN |-> "super_admin"]

CampusDomain == <<"@", "c", "a", "m", "p", "u", "s", ".", "e", "d", "u">>

\* config: the super-admin allow-list
SUPER_ADMIN_EMAILS == { <<"a", ".", "b">> \o CampusDomain }

\* config: minutes after which a session has expired
SESSION_TIMEOUT == 2

\* hashlib.sha256(password.encode()).hexdigest(): the digest of a password is
\* not the password, and distinct passwords of the input set have distinct
\* digests
hash_password(password) == <<"sha256", password>>

\* email.split('@')[0]
local_part(email) ==
    LET ats == {i \in DOMAIN email : email[i] = "@"}
    IN  IF ats = {} THEN email
        ELSE SubSeq(email, 1, (CHOOSE i \in ats : \A j \in ats : i <= j) - 1)

\* uid = email.split('@')[0].replace('.', '_')
uid_of(email) == replace(local_part(email), ".", "_")

\* user_ref.get(): the record under users/<uid>, None (no fields) when absent
user_get(us, uid) == IF uid \in DOMAIN us THEN us[uid] ELSE EmptyDict

\* user_ref.update({field: value}): creates the node when it does not exist
user_update(us, uid, field, value) ==
    dict_set(us, uid, dict_set(user_get(us, uid), field, value))

\* what the auth manager's calls return, with the users they leave behind
AuthOutcome(us, ok, sess, msg) == [users |-> us, ok |-> ok, session |-> sess, msg |-> msg]

NoSession == EmptyDict          \* st.session_state.user = None

RegistrationOk == "Registration successful"
UserExists     == "User already exists"
UserNotFound   == "User not found"
AccountDisabled == "Account is disabled"
InvalidPassword == "Invalid password"
LoginOk        == "Login successful"
RoleUpdatedOk  == "Role updated successfully"
ActivatedOk    == "User activated successfully"
DeactivatedOk  == "User deactivated successfully"

\* variant: a record is a duplicate only when it carries the same email
register_user_same_email_only(us, email, password, name) ==
    LET uid == uid_of(email)
        user_data == [email |-> email, name |-> name,
                      password |-> hash_password(password),
                      role |-> ROLES.STUDENT, points |-> 0, active |-> TRUE]
    IN  IF uid \in DOMAIN us /\ dict_get(us[uid], "email", None) = email
        THEN AuthOutcome(us, FALSE, NoSession, UserExists)
        ELSE AuthOutcome(dict_set(us, uid, user_data), TRUE, NoSession, RegistrationOk)

\* register_user, lines 20-46, with role left at its default
register_user(us, email, password, name) ==
    LET uid == uid_of(email)
        user_data == [email |-> email, name |-> name,
                      password |-> hash_password(password),
                      role |-> ROLES.STUDENT, points |-> 0, active |-> TRUE]
    IN  IF uid \in DOMAIN us
        THEN AuthOutcome(us, FALSE, NoSession, UserExists)
        ELSE AuthOutcome(dict_set(us, uid, user_data), TRUE, NoSession, RegistrationOk)

\* variant: the password is verified before the active flag is looked at
login_refusal_password_first(us, email, password) ==
    LET user_data == user_get(us, uid_of(email))
    IN  IF uid_of(email) \notin DOMAIN us THEN UserNotFound
        ELSE IF dict_get(user_data, "password", None) # hash_password(password)
        THEN InvalidPassword
        ELSE IF ~dict_get(user_data, "active", TRUE) THEN AccountDisabled
        ELSE ""

\* login, lines 51-64: the message of the refusal, "" when there is none
login_refusal(us, email, password) ==
    LET user_data == user_get(us, uid_of(email))
    IN  IF uid_of(email) \notin DOMAIN us THEN UserNotFound
        ELSE IF ~dict_get(user_data, "active", TRUE) THEN AccountDisabled
        ELSE IF dict_get(user_data, "password", None) # hash_password(password)
        THEN InvalidPassword
        ELSE ""

\* variant: the override reaches the session but is not written to the record
login_accept_session_only(us, email, t) ==
    LET uid == uid_of(email)
        user_data == user_get(us, uid)
        stored == dict_get(user_data, "role", ROLES.STUDENT)
        role == IF email \in SUPER_ADMIN_EMAILS THEN ROLES.SUPER_ADMIN ELSE stored
        u2 == user_update(us, uid, "last_login", t)
        session_data == [uid |-> uid, email |-> email,
                         name |-> dict_get(user_data, "name", "User"),
                         role |-> role, login_time |-> t]
    IN  AuthOutcome(u2, TRUE, session_data, LoginOk)

\* login, lines 66-86: role, super admin override, last login, session data
login_accept(us, email, t) ==
    LET uid == uid_of(email)
        user_data == user_get(us, uid)
        stored == dict_get(user_data, "role", ROLES.STUDENT)
        role == IF email \in SUPER_ADMIN_EMAILS THEN ROLES.SUPER_ADMIN ELSE stored
        u1 == IF email \in SUPER_ADMIN_EMAILS THEN user_update(us, uid, "role", role) ELSE us
        u2 == user_update(u1, uid, "last_login", t)
        session_data == [uid |-> uid, email |-> email,
                         name |-> dict_get(user_data, "name", "User"),
                         role |-> role, login_time |-> t]
    IN  AuthOutcome(u2, TRUE, session_data, LoginOk)

\* variant: the super admin override is written before the record is verified
login_overrides_before_verifying(us, email, password, t) ==
    LET uid == uid_of(email)
        u1 == IF uid \in DOMAIN us /\ email \in SUPER_ADMIN_EMAILS
              THEN user_update(us, uid, "role", ROLES.SUPER_ADMIN) ELSE us
    IN  IF login_refusal(us, email, password) # ""
        THEN AuthOutcome(u1, FALSE, NoSession, login_refusal(us, email, password))
        ELSE login_accept(us, email, t)

\* login, lines 48-89, at time t
login(us, email, password, t) ==
    IF login_refusal(us, email, password) # ""
    THEN AuthOutcome(us, FALSE, NoSession, login_refusal(us, email, password))
    ELSE login_accept(us, email, t)

\* logout, lines 91-96
logout(sess) == NoSession

\* variant: a session expires when the timeout is reached
session_expired_at_timeout(t, login_time) == t - login_time >= SESSION_TIMEOUT

\* is_authenticated, line 106: datetime.now() - login_time > timedelta(minutes=SESSION_TIMEOUT)
session_expired(t, login_time) == t - login_time > SESSION_TIMEOUT

\* is_authenticated, lines 98-110: the answer and the session it leaves
is_authenticated(sess, t) ==
    IF sess = NoSession
    THEN [session |-> sess, result |-> FALSE]
    ELSE IF "login_time" \in DOMAIN sess /\ session_expired(t, sess.login_time)
    THEN [session |-> logout(sess), result |-> FALSE]
    ELSE [session |-> sess, result |-> TRUE]

\* get_current_user, lines 112-116
get_current_user(sess, t) ==
    IF is_authenticated(sess, t).result THEN sess ELSE NoSession

\* variant: a role only satisfies the roles below it
role_rank_strict(role, required_role) ==
    LET role_hierarchy(r) == CASE r = ROLES.SUPER_ADMIN -> 3
                               [] r = ROLES.ADMIN       -> 2
                               [] r = ROLES.STUDENT     -> 1
                               [] OTHER                 -> 0
    IN  role_hierarchy(role) > role_hierarchy(required_role)

\* has_role, lines 126-133: role_hierarchy.get(user_role, 0) >= role_hierarchy.get(required_role, 0)
role_rank(role, required_role) ==
    LET role_hierarchy(r) == CASE r = ROLES.SUPER_ADMIN -> 3
                               [] r = ROLES.ADMIN       -> 2
                               [] r = ROLES.STUDENT     -> 1
                               [] OTHER                 -> 0
    IN  role_hierarchy(role) >= role_hierarchy(required_role)

\* has_role, lines 118-133: the answer and the session it leaves
has_role(sess, t, required_role) ==
    LET user == get_current_user(sess, t)
    IN  [session |-> is_authenticated(sess, t).session,
         result  |-> IF user = NoSession THEN FALSE
                     ELSE role_rank(dict_get(user, "role", ROLES.STUDENT), required_role)]

\* is_admin, lines 135-137
is_admin(sess, t) == has_role(sess, t, ROLES.ADMIN).result

\* is_super_admin, lines 139-144
is_super_admin(sess, t) ==
    LET user == get_current_user(sess, t)
    IN  IF user = NoSession THEN FALSE
        ELSE dict_get(user, "role", None) = ROLES.SUPER_ADMIN

\* views/admin_view.py show_user_management, lines 433-438: the user
\* management section, with its role and status buttons, is rendered
user_management_shown(sess, t) == is_super_admin(sess, t)

\* update_user_role, lines 176-183
update_user_role(us, uid, new_role) ==
    AuthOutcome(user_update(us, uid, "role", new_role), TRUE, NoSession, RoleUpdatedOk)

\* toggle_user_status, lines 185-201
toggle_user_status(us, uid) ==
    LET user_data == user_get(us, uid)
        current_status == dict_get(user_data, "active", TRUE)
    IN  IF uid \notin DOMAIN us
        THEN AuthOutcome(us, FALSE, NoSession, UserNotFound)
        ELSE AuthOutcome(user_update(us, uid, "active", ~current_status), TRUE, NoSession,
                         IF ~current_status THEN ActivatedOk ELSE DeactivatedOk)

AuthCall(op, email, password, name, uid, role, ok, msg, sess, result) ==
    [op |-> op, email |-> email, password |-> password, name |-> name, uid |-> uid,
     role |-> role, ok |-> ok, msg |-> msg, session |-> sess, result |-> result]

NoAuthCall == AuthCall("none", <<>>, "", "", <<>>, "", FALSE, "", NoSession, FALSE)

AuthState == [users |-> users, session |-> session, now |-> now]

InitAccounts ==
    /\ users = EmptyDict
    /\ session = NoSession
    /\ now = 0
    /\ auth_last = NoAuthCall
    /\ auth_prev = [users |-> EmptyDict, session |-> NoSession, now |-> 0]

-----------------------------------------------------------------------------
(* State after construction: an empty database, nothing called yet *)

Call(op, via, fid, uid, out) ==
    [op |-> op, via |-> via, fid |-> fid, uid |-> uid,
     ok |-> out.ok, ret |-> out.ret, msg |-> out.msg, other |-> out.other]

NoCall == Call("none", "service", NoFacility, NoUser,
               Outcome(EmptyDB, FALSE, None, "", NoFacility))

NoSince == [fid |-> NoFacility, reset |-> FALSE]

IdleProc == [pc |-> "idle", op |-> "none", fid |-> NoFacility, uid |-> NoUser,
             name |-> NoFacility, capacity |-> 0,
             current_count |-> 0, new_count |-> 0,
             calls |-> 0, faults |-> 0, faulted |-> FALSE,
             ok |-> FALSE, ret |-> None, msg |-> "", start |-> EmptyDB]

\* no query made yet
NoCalc == [op |-> "none"]

Init ==
    /\ facilities = EmptyDict
    /\ queues = EmptyDict
    /\ active_queues = EmptyDict
    /\ history = EmptyDict
    /\ last = NoCall
    /\ prev = EmptyDB
    /\ since = [u \in Users |-> NoSince]
    /\ procs = [w \in Workers |-> IdleProc]
    /\ InitAccounts
    /\ calc = NoCalc

SetDBInit(db) ==
    /\ facilities = db.facilities
    /\ queues = db.queues
    /\ active_queues = db.active_queues
    /\ history = db.history

SetDB(db) ==
    /\ facilities' = db.facilities
    /\ queues' = db.queues
    /\ active_queues' = db.active_queues
    /\ history' = db.history

\* a whole handler, run to completion against the store
Complete(op, via, fid, uid, out) ==
    /\ HistoryTotal(out.db) <= MaxHistory
    /\ SetDB(out.db)
    /\ last' = Call(op, via, fid, uid, out)
    /\ prev' = DB
    /\ UNCHANGED <<procs, accounts, calc>>

-----------------------------------------------------------------------------
(* One action per operation *)

Checkin(f, u) ==
    \E out \in checkin(DB, f, u) :
        /\ Complete("checkin", "service", f, u, out)
        /\ since' = IF out.ok /\ u \in Users
                    THEN [since EXCEPT ![u] = [fid |-> f, reset |-> FALSE]]
                    ELSE since

\* views/student_view.py display_qr_scanner: the Confirm Check-In button is
\* offered when the banner of a current check-in is not shown (lines 72-92)
\* and get_facility finds a record for the scanned identifier (lines 101-104)
ConfirmCheckIn(f, u) ==
    /\ get_facility(DB, f)
    /\ \E cur \in (IF u # NoUser THEN get_user_current_facility(DB, u) ELSE {NoFacility}) :
          ~(cur # NoFacility /\ get_facility(DB, cur))
    /\ \E out \in checkin(DB, f, u) :
        /\ Complete("checkin", "view", f, u, out)
        /\ since' = IF out.ok /\ u \in Users
                    THEN [since EXCEPT ![u] = [fid |-> f, reset |-> FALSE]]
                    ELSE since

Checkout(f, u) ==
    \E out \in checkout(DB, f, u) :
        /\ Complete("checkout", "service", f, u, out)
        /\ since' = IF out.ok /\ u \in Users
                    THEN [since EXCEPT ![u] = NoSince]
                    ELSE since

Reset(f, a) ==
    /\ Complete("reset", "service", f, NoUser, reset_queue(DB, f, a))
    /\ since' = [u \in Users |->
                    IF since[u].fid = f THEN [since[u] EXCEPT !.reset = TRUE]
                    ELSE since[u]]

CreateFacility(name, capacity) ==
    /\ Complete("create", "service", facility_id_of(name), NoUser,
                create_facility(DB, name, capacity))
    /\ UNCHANGED since

DeleteFacility(f) ==
    /\ Complete("delete", "service", f, NoUser, delete_facility(DB, f))
    /\ UNCHANGED since

RestoreFacility(f) ==
    /\ Complete("restore", "service", f, NoUser, restore_facility(DB, f))
    /\ UNCHANGED since

\* The operations as the service states them: every call names its user.
\* Calls with user_id=None are exercised step by step under SpecConc.
Next ==
    \/ \E f \in FacilityIds, u \in Users : Checkin(f, u)
    \/ \E f \in FacilityIds, u \in Users : ConfirmCheckIn(f, u)
    \/ \E f \in FacilityIds, u \in Users : Checkout(f, u)
    \/ \E f \in FacilityIds, a \in Actors : Reset(f, a)
    \/ \E n \in Names, c \in Capacities : CreateFacility(n, c)
    \/ \E f \in FacilityIds : DeleteFacility(f)
    \/ \E f \in FacilityIds : RestoreFacility(f)

Spec == Init /\ [][Next]_vars


-----------------------------------------------------------------------------
(* The handlers one store access at a time.  Every get, update, set, push   *)
(* and delete is one request to the database; nothing in the code holds a  *)
(* lock or a transaction across them, so requests of different workers     *)
(* interleave freely.                                                      *)

observers == <<last, prev, since, accounts, calc>>

At(w, pc) == procs[w].pc = pc

Goto(w, pc) == procs' = [procs EXCEPT ![w].pc = pc]

\* the handler returns: its locals are gone, its result is what the caller sees
Returned(p, ok, ret, msg) ==
    [p EXCEPT !.pc = "idle", !.ok = ok, !.ret = ret, !.msg = msg,
              !.current_count = 0, !.new_count = 0]

Return(w, ok, ret, msg) == procs' = [procs EXCEPT ![w] = Returned(procs[w], ok, ret, msg)]

SumOver(field) ==
    LET RECURSIVE Sum(_)
        Sum(S) == IF S = {} THEN 0
                  ELSE LET w == CHOOSE x \in S : TRUE
                       IN procs[w][field] + Sum(S \ {w})
    IN Sum(Workers)

\* A call starts.  snap is what the worker remembers of the store at that
\* moment (kept only where calls run one after the other).
Begin(w, op, pc, f, u, snap) ==
    /\ At(w, "idle")
    /\ SumOver("calls") < MaxCalls
    /\ procs' = [procs EXCEPT ![w] =
                    [IdleProc EXCEPT !.pc = pc, !.op = op, !.fid = f, !.uid = u,
                                     !.start = snap,
                                     !.calls = procs[w].calls + 1,
                                     !.faults = procs[w].faults]]
    /\ UNCHANGED <<store, observers>>

\* checkin, lines 68-78: one get of active_queues
CheckinCheck(w) ==
    /\ At(w, "checkin_check")
    /\ \E r \in is_user_checked_in(DB, procs[w].uid) :
          IF procs[w].uid # NoUser /\ r.found
          THEN Return(w, FALSE, None,
                      IF r.fid = procs[w].fid THEN AlreadyCheckedInHere ELSE AlreadyElsewhere)
          ELSE Goto(w, "checkin_get")
    /\ UNCHANGED <<store, observers>>

\* checkin, lines 80-84: queue_ref.get()
CheckinGet(w) ==
    /\ At(w, "checkin_get")
    /\ procs' = [procs EXCEPT ![w].pc = "checkin_update",
                              ![w].current_count = queue_count(DB, procs[w].fid),
                              ![w].new_count = queue_count(DB, procs[w].fid) + 1]
    /\ UNCHANGED <<store, observers>>

\* checkin, lines 87-90: queue_ref.update
CheckinUpdate(w) ==
    /\ At(w, "checkin_update")
    /\ SetDB(queue_write(DB, procs[w].fid, procs[w].new_count))
    /\ Goto(w, "checkin_push")
    /\ UNCHANGED observers

\* checkin, lines 93-105: history push
CheckinPush(w) ==
    /\ At(w, "checkin_push")
    /\ SetDB(history_push(DB, procs[w].fid,
                          Entry("checkin", procs[w].new_count, procs[w].uid, NoUser)))
    /\ IF procs[w].uid # NoUser
       THEN Goto(w, "checkin_active")
       ELSE Return(w, TRUE, Some(procs[w].new_count), CheckedInOk)
    /\ UNCHANGED observers

\* checkin, lines 108-114: the active record, then return
CheckinActive(w) ==
    /\ At(w, "checkin_active")
    /\ SetDB(active_set(DB, procs[w].fid, procs[w].uid))
    /\ Return(w, TRUE, Some(procs[w].new_count), CheckedInOk)
    /\ UNCHANGED observers

\* checkout, lines 123-131
CheckoutCheck(w) ==
    /\ At(w, "checkout_check")
    /\ \E r \in is_user_checked_in(DB, procs[w].uid) :
          IF procs[w].uid # NoUser /\ ~r.found
          THEN Return(w, FALSE, None, NotCheckedInAnywhere)
          ELSE IF procs[w].uid # NoUser /\ r.fid # procs[w].fid
          THEN Return(w, FALSE, None, CheckedInElsewhere)
          ELSE Goto(w, "checkout_get")
    /\ UNCHANGED <<store, observers>>

\* checkout, lines 133-140
CheckoutGet(w) ==
    /\ At(w, "checkout_get")
    /\ IF queue_empty(queue_count(DB, procs[w].fid))
       THEN Return(w, FALSE, Some(0), QueueAlreadyEmpty)
       ELSE procs' = [procs EXCEPT ![w].pc = "checkout_update",
                                   ![w].current_count = queue_count(DB, procs[w].fid),
                                   ![w].new_count = queue_count(DB, procs[w].fid) - 1]
    /\ UNCHANGED <<store, observers>>

\* checkout, lines 143-146
CheckoutUpdate(w) ==
    /\ At(w, "checkout_update")
    /\ SetDB(queue_write(DB, procs[w].fid, procs[w].new_count))
    /\ Goto(w, "checkout_push")
    /\ UNCHANGED observers

\* checkout, lines 149-160
CheckoutPush(w) ==
    /\ At(w, "checkout_push")
    /\ SetDB(history_push(DB, procs[w].fid,
                          Entry("checkout", procs[w].new_count, procs[w].uid, NoUser)))
    /\ IF procs[w].uid # NoUser
       THEN Goto(w, "checkout_delete")
       ELSE Return(w, TRUE, Some(procs[w].new_count), CheckedOutOk)
    /\ UNCHANGED observers

\* checkout, lines 163-166
CheckoutDelete(w) ==
    /\ At(w, "checkout_delete")
    /\ SetDB(active_delete(DB, procs[w].fid, procs[w].uid))
    /\ Return(w, TRUE, Some(procs[w].new_count), CheckedOutOk)
    /\ UNCHANGED observers

\* reset_queue, lines 197-201
ResetSet(w) ==
    /\ At(w, "reset_set")
    /\ SetDB(queue_write(DB, procs[w].fid, 0))
    /\ Goto(w, "reset_clear")
    /\ UNCHANGED observers

\* reset_queue, line 204
ResetClear(w) ==
    /\ At(w, "reset_clear")
    /\ SetDB(active_clear(DB, procs[w].fid))
    /\ Goto(w, "reset_push")
    /\ UNCHANGED observers

\* reset_queue, lines 207-214
ResetPush(w) ==
    /\ At(w, "reset_push")
    /\ SetDB(history_push(DB, procs[w].fid, Entry("reset", 0, NoUser, procs[w].uid)))
    /\ Return(w, TRUE, None, ResetOk)
    /\ UNCHANGED observers

Step(w) ==
    \/ CheckinCheck(w)
    \/ CheckinGet(w)
    \/ CheckinUpdate(w)
    \/ CheckinPush(w)
    \/ CheckinActive(w)
    \/ CheckoutCheck(w)
    \/ CheckoutGet(w)
    \/ CheckoutUpdate(w)
    \/ CheckoutPush(w)
    \/ CheckoutDelete(w)
    \/ ResetSet(w)
    \/ ResetClear(w)
    \/ ResetPush(w)

BeginCheckin(w, snap) ==
    \E f \in FacilityIds, u \in Callers : Begin(w, "checkin", "checkin_check", f, u, snap)

BeginCheckout(w, snap) ==
    \E f \in FacilityIds, u \in Callers : Begin(w, "checkout", "checkout_check", f, u, snap)

BeginReset(w, snap) ==
    \E f \in FacilityIds, a \in Actors : Begin(w, "reset", "reset_set", f, a, snap)

\* Two facilities exist, created through create_facility, with empty queues
BaseDB ==
    LET two == CHOOSE p \in Names \X Names : facility_id_of(p[1]) # facility_id_of(p[2])
        c   == CHOOSE c \in Capacities : TRUE
    IN  create_facility(create_facility(EmptyDB, two[1], c).db, two[2], c).db

InitConc ==
    /\ SetDBInit(BaseDB)
    /\ last = NoCall
    /\ prev = EmptyDB
    /\ since = [u \in Users |-> NoSince]
    /\ procs = [w \in Workers |-> IdleProc]
    /\ InitAccounts
    /\ calc = NoCalc

NextConc ==
    \E w \in Workers :
        \/ BeginCheckin(w, EmptyDB)
        \/ BeginCheckout(w, EmptyDB)
        \/ BeginReset(w, EmptyDB)
        \/ Step(w)

SpecConc == InitConc /\ [][NextConc]_vars


-----------------------------------------------------------------------------
(* One worker, calls one after the other, and a store that can fail: any   *)
(* request to the database may raise instead of being applied.             *)

\* create_facility, lines 19-25
CreateGet(w) ==
    /\ At(w, "create_get")
    /\ IF procs[w].fid \in DOMAIN facilities
       THEN Return(w, FALSE, None, AlreadyExists)
       ELSE Goto(w, "create_set")
    /\ UNCHANGED <<store, observers>>

\* create_facility, lines 28-44
CreateSet(w) ==
    /\ At(w, "create_set")
    /\ SetDB(facility_write(DB, procs[w].fid,
                [id |-> procs[w].fid, name |-> procs[w].name,
                 capacity |-> procs[w].capacity, active |-> TRUE]))
    /\ Goto(w, "create_queue")
    /\ UNCHANGED observers

\* create_facility, lines 47-53
CreateQueue(w) ==
    /\ At(w, "create_queue")
    /\ SetDB(queue_write(DB, procs[w].fid, 0))
    /\ Return(w, TRUE, None, CreatedOk)
    /\ UNCHANGED observers

BeginCreate(w) ==
    \E n \in Names, c \in Capacities :
        /\ At(w, "idle")
        /\ SumOver("calls") < MaxCalls
        /\ procs' = [procs EXCEPT ![w] =
                        [IdleProc EXCEPT !.pc = "create_get", !.op = "create",
                                         !.fid = facility_id_of(n), !.name = n,
                                         !.capacity = c, !.start = DB,
                                         !.calls = procs[w].calls + 1,
                                         !.faults = procs[w].faults]]
        /\ UNCHANGED <<store, observers>>

\* The request the worker is about to make raises.  is_user_checked_in
\* catches the exception itself and answers (False, None) (lines 53-55), so
\* checkin goes on as if the user were checked in nowhere and checkout
\* answers "not checked in"; everywhere else the handler's own except clause
\* returns the failure (lines 116-117, 168-169, 216-217; facility 55-56).
Fault(w) ==
    /\ ~At(w, "idle")
    /\ SumOver("faults") < MaxFaults
    /\ ~(procs[w].pc \in {"checkin_check", "checkout_check"} /\ procs[w].uid = NoUser)
    /\ LET p == [procs[w] EXCEPT !.faults = @ + 1, !.faulted = TRUE]
       IN  procs' = [procs EXCEPT ![w] =
              CASE p.pc = "checkin_check"  -> [p EXCEPT !.pc = "checkin_get"]
                [] p.pc = "checkout_check" -> Returned(p, FALSE, None, NotCheckedInAnywhere)
                [] OTHER                   -> Returned(p, FALSE, None, Failed)]
    /\ UNCHANGED <<store, observers>>

FaultWorkers == {CHOOSE w \in Workers : TRUE}

NextFault ==
    \E w \in FaultWorkers :
        \/ BeginCheckin(w, DB)
        \/ BeginCheckout(w, DB)
        \/ BeginReset(w, DB)
        \/ BeginCreate(w)
        \/ Step(w)
        \/ CreateGet(w)
        \/ CreateSet(w)
        \/ CreateQueue(w)
        \/ Fault(w)

SpecFault == Init /\ [][NextFault]_vars


-----------------------------------------------------------------------------
(* Accounts and sessions: one browser session against the users directory, *)
(* calls one after the other.  SpecAuth runs every call of the auth        *)
(* manager at one instant; SpecSession lets the clock run, forward only,   *)
(* over the calls that read it.                                            *)

MaxTime == 3        \* minutes the clock runs

Emails     == { <<"a", ".", "b">> \o CampusDomain,
                <<"a", "_", "b">> \o CampusDomain }
Passwords  == {"p", "q"}
UserNames  == {"n1", "n2"}
RoleInputs == {ROLES.STUDENT, ROLES.ADMIN, ROLES.SUPER_ADMIN, "guest"}
Uids       == {uid_of(e) : e \in Emails}

\* a call of the auth manager has returned
AuthComplete(call, us, sess) ==
    /\ users' = us
    /\ session' = sess
    /\ auth_last' = call
    /\ auth_prev' = AuthState
    /\ UNCHANGED <<now, tracker, calc>>

\* views/login_view.py lines 126-131
Register(email, password, name) ==
    LET out == register_user(users, email, password, name)
    IN  AuthComplete(AuthCall("register", email, password, name, uid_of(email), "",
                              out.ok, out.msg, NoSession, out.ok),
                     out.users, session)

\* views/login_view.py lines 62-66: a successful login becomes the session
Login(email, password) ==
    LET out == login(users, email, password, now)
    IN  AuthComplete(AuthCall("login", email, password, "", uid_of(email), "",
                              out.ok, out.msg, out.session, out.ok),
                     out.users, IF out.ok THEN out.session ELSE session)

\* views/login_view.py lines 159-160
Logout ==
    /\ session # NoSession
    /\ AuthComplete(AuthCall("logout", <<>>, "", "", <<>>, "", TRUE, "", NoSession, TRUE),
                    users, logout(session))

\* views/admin_view.py line 483
UpdateUserRole(uid, new_role) ==
    LET out == update_user_role(users, uid, new_role)
    IN  AuthComplete(AuthCall("update_user_role", <<>>, "", "", uid, new_role,
                              out.ok, out.msg, NoSession, out.ok),
                     out.users, session)

\* views/admin_view.py line 494
ToggleUserStatus(uid) ==
    LET out == toggle_user_status(users, uid)
    IN  AuthComplete(AuthCall("toggle_user_status", <<>>, "", "", uid, "",
                              out.ok, out.msg, NoSession, out.ok),
                     out.users, session)

\* views/admin_view.py lines 436-494: the activate/deactivate button of the
\* user management section, for a user picked from the listed ones
ManageUserStatus(uid) ==
    /\ user_management_shown(session, now)
    /\ uid \in DOMAIN users
    /\ LET out == toggle_user_status(users, uid)
       IN  AuthComplete(AuthCall("toggle_user_status", <<>>, "", "", uid, "",
                                 out.ok, out.msg, NoSession, out.ok),
                        out.users, is_authenticated(session, now).session)

IsAuthenticated ==
    LET out == is_authenticated(session, now)
    IN  AuthComplete(AuthCall("is_authenticated", <<>>, "", "", <<>>, "",
                              TRUE, "", NoSession, out.result),
                     users, out.session)

HasRole(required_role) ==
    LET out == has_role(session, now, required_role)
    IN  AuthComplete(AuthCall("has_role", <<>>, "", "", <<>>, required_role,
                              TRUE, "", NoSession, out.result),
                     users, out.session)

\* a minute passes
Tick ==
    /\ now < MaxTime
    /\ now' = now + 1
    /\ UNCHANGED <<users, session, auth_last, auth_prev, tracker, calc>>

NextAuth ==
    \/ \E e \in Emails, p \in Passwords, n \in UserNames : Register(e, p, n)
    \/ \E e \in Emails, p \in Passwords : Login(e, p)
    \/ Logout
    \/ \E uid \in Uids, r \in RoleInputs : UpdateUserRole(uid, r)
    \/ \E uid \in Uids : ToggleUserStatus(uid)
    \/ \E uid \in Uids : ManageUserStatus(uid)
    \/ IsAuthenticated
    \/ \E r \in RoleInputs : HasRole(r)

SpecAuth == Init /\ [][NextAuth]_vars

\* One account exists, registered through register_user
BaseUsers ==
    LET e == CHOOSE e \in Emails : e \notin SUPER_ADMIN_EMAILS
        p == CHOOSE p \in Passwords : TRUE
        n == CHOOSE n \in UserNames : TRUE
    IN  register_user(EmptyDict, e, p, n).users

InitSession ==
    /\ SetDBInit(EmptyDB)
    /\ last = NoCall
    /\ prev = EmptyDB
    /\ since = [u \in Users |-> NoSince]
    /\ procs = [w \in Workers |-> IdleProc]
    /\ users = BaseUsers
    /\ session = NoSession
    /\ now = 0
    /\ auth_last = NoAuthCall
    /\ auth_prev = [users |-> BaseUsers, session |-> NoSession, now |-> 0]
    /\ calc = NoCalc

\* The life of a session while the clock runs
NextSession ==
    \/ \E e \in Emails, p \in Passwords : Login(e, p)
    \/ Logout
    \/ IsAuthenticated
    \/ \E r \in RoleInputs : HasRole(r)
    \/ Tick

SpecSession == InitSession /\ [][NextSession]_vars

-----------------------------------------------------------------------------
(* The facility registry with editing: create, update, soft delete and      *)
(* restore, and check-ins that give the queues something to keep.          *)

UpdateCapacities == {1, 2}

\* the dictionaries update_facility is called with: any of name and capacity
UpdateInputs ==
    {EmptyDict}
    \cup {dict_set(EmptyDict, "name", n) : n \in Names}
    \cup {dict_set(EmptyDict, "capacity", c) : c \in UpdateCapacities}
    \cup {dict_set(dict_set(EmptyDict, "name", n), "capacity", c) :
              n \in Names, c \in UpdateCapacities}

\* views/admin_view.py line 283, and the service called directly
UpdateFacility(f, updates, a) ==
    /\ Complete("update", "service", f, NoUser, update_facility(DB, f, updates, a))
    /\ UNCHANGED since

NextRegistry ==
    \/ \E n \in Names, c \in Capacities : CreateFacility(n, c)
    \/ \E f \in FacilityIds, u \in UpdateInputs, a \in Actors : UpdateFacility(f, u, a)
    \/ \E f \in FacilityIds : DeleteFacility(f)
    \/ \E f \in FacilityIds : RestoreFacility(f)
    \/ \E f \in FacilityIds : Checkin(f, CHOOSE u \in Users : TRUE)

SpecRegistry == Init /\ [][NextRegistry]_vars

\* The tracker as the student view drives it: every check-in is confirmed
\* in the view, which looks the facility record up first.
NextView ==
    \/ \E f \in FacilityIds, u \in Users : ConfirmCheckIn(f, u)
    \/ \E f \in FacilityIds, u \in Users : Checkout(f, u)
    \/ \E f \in FacilityIds, a \in Actors : Reset(f, a)
    \/ \E n \in Names, c \in Capacities : CreateFacility(n, c)
    \/ \E f \in FacilityIds : DeleteFacility(f)
    \/ \E f \in FacilityIds : RestoreFacility(f)

SpecView == Init /\ [][NextView]_vars

-----------------------------------------------------------------------------
(* The read-only queries.  They change nothing in the store, so each is    *)
(* run against stores drawn from the ones the handlers can leave behind,   *)
(* and the call and what it returned are kept in calc.                     *)

\* the facility the drawn stores hold
QueryName     == <<"G">>
QueryFacility == facility_id_of(QueryName)

StatCapacities == {0, 1, 10, 50}
AvgTimes       == {3, 5}
StatCounts     == {0, 1, 3, 4, 6, 7, 20, 35, 51}

\* the record create_facility writes, with the field the statistics read
StatRecord(capacity, avg_time) ==
    [id |-> QueryFacility, name |-> QueryName, capacity |-> capacity,
     avg_time_per_person |-> avg_time, active |-> TRUE]

\* The facility is absent or has one of the capacities; its queue node is
\* absent or holds one of the counts.  Check-ins without a user leave no
\* active record, and the count has no upper limit.
InitStats ==
    /\ facilities \in {EmptyDict} \cup
           {dict_set(EmptyDict, QueryFacility, StatRecord(c, a)) :
               c \in StatCapacities, a \in AvgTimes}
    /\ queues \in {EmptyDict} \cup
           {dict_set(EmptyDict, QueryFacility, [count |-> n]) : n \in StatCounts}
    /\ active_queues = EmptyDict
    /\ history = EmptyDict
    /\ last = NoCall
    /\ prev = EmptyDB
    /\ since = [u \in Users |-> NoSince]
    /\ procs = [w \in Workers |-> IdleProc]
    /\ InitAccounts
    /\ calc = NoCalc

GetFacilityStats(f) ==
    /\ calc' = [op |-> "get_facility_stats", fid |-> f,
                result |-> get_facility_stats(DB, f)]
    /\ UNCHANGED <<tracker, accounts>>

\* views/student_view.py lines 48-56: the overview of the active facilities
DisplayOverview ==
    /\ calc' = [op |-> "display_all_facilities_overview",
                result |-> display_all_facilities_overview(DB, get_all_facilities(DB, FALSE))]
    /\ UNCHANGED <<tracker, accounts>>

NextStats ==
    \/ \E f \in FacilityIds : GetFacilityStats(f)
    \/ DisplayOverview

SpecStats == InitStats /\ [][NextStats]_vars

\* History entries with the timestamp the tracker's specifications leave
\* out.  The wall clock can stand still or be set back between two pushes,
\* so every sequence of timestamps is drawn.
Stamps == {1, 2, 3}

StampedEntries == {[action |-> "checkin", timestamp |-> t] : t \in Stamps}

StampedHistories == UNION {[1..n -> StampedEntries] : n \in 1..MaxHistory}

Limits == {0, 1, 2, DefaultLimit}

InitHistory ==
    /\ facilities = EmptyDict
    /\ queues = EmptyDict
    /\ active_queues = EmptyDict
    /\ history \in {EmptyDict} \cup
           {dict_set(EmptyDict, QueryFacility, h) : h \in StampedHistories}
    /\ last = NoCall
    /\ prev = EmptyDB
    /\ since = [u \in Users |-> NoSince]
    /\ procs = [w \in Workers |-> IdleProc]
    /\ InitAccounts
    /\ calc = NoCalc

GetQueueHistory(f, limit) ==
    /\ calc' = [op |-> "get_queue_history", fid |-> f, limit |-> limit,
                result |-> get_queue_history(DB, f, limit)]
    /\ UNCHANGED <<tracker, accounts>>

NextHistory == \E f \in FacilityIds, limit \in Limits : GetQueueHistory(f, limit)

SpecHistory == InitHistory /\ [][NextHistory]_vars

\* Texts a camera can read: the prefix, pieces of identifiers and the
\* application's address, up to three in a row, and the empty text.
QrParts == {QrPrefix, AppUrlQuery, <<"a">>, <<"g">>, <<":">>}

QrInputs ==
    {<<>>} \cup QrParts \cup {p \o q : p, q \in QrParts}
           \cup {p \o q \o r : p, q, r \in QrParts}

\* views/admin_view.py line 350: the code shown for a facility
GenerateFacilityQr(f) ==
    /\ calc' = [op |-> "generate_facility_qr", fid |-> f,
                result |-> generate_facility_qr(f)]
    /\ UNCHANGED <<tracker, accounts>>

ValidateQrData(qr_data) ==
    /\ calc' = [op |-> "validate_qr_data", qr_data |-> qr_data,
                result |-> validate_qr_data(qr_data)]
    /\ UNCHANGED <<tracker, accounts>>

\* views/student_view.py lines 146-166: the scanner reads the code on
\* display and validates its text
DisplayQrScanner ==
    /\ calc.op = "generate_facility_qr"
    /\ calc' = [op |-> "display_qr_scanner", fid |-> calc.fid, qr_data |-> calc.result,
                result |-> validate_qr_data(calc.result)]
    /\ UNCHANGED <<tracker, accounts>>

NextQr ==
    \/ \E f \in FacilityIds : GenerateFacilityQr(f)
    \/ \E qr_data \in QrInputs : ValidateQrData(qr_data)
    \/ DisplayQrScanner

SpecQr == Init /\ [][NextQr]_vars

-----------------------------------------------------------------------------
(* Properties *)

\* the facilities whose active users contain u
FacilitiesOf(db, u) == {f \in FacilityIds : u \in active_users(db, f)}

\* this step is a checkin call made by u
CheckinStepBy(u) == last'.op = "checkin" /\ last'.uid = u

CheckinRefused(u, held) ==
    /\ ~last'.ok
    /\ last'.ret = None
    /\ last'.msg = IF last'.fid = held THEN AlreadyCheckedInHere ELSE AlreadyElsewhere
    /\ UNCHANGED store

\* C1 as stated: after a successful checkin(f,u), every later checkin(f2,u)
\* fails, with "already checked in to this facility" when f2 = f and with
\* "already checked in to <other>" otherwise, and changes nothing in the
\* store, until a checkout(f,u) succeeds.
C1_UntilCheckout ==
    [][\A u \in Users :
          (since[u].fid # NoFacility /\ CheckinStepBy(u))
              => CheckinRefused(u, since[u].fid)]_vars

\* C1 amended: the same, until a checkout(f,u) succeeds or f is reset.
C1_UntilCheckoutOrReset ==
    [][\A u \in Users :
          (since[u].fid # NoFacility /\ ~since[u].reset /\ CheckinStepBy(u))
              => CheckinRefused(u, since[u].fid)]_vars

\* C1 witness: a check-in at another facility was refused while the user's
\* earlier check-in was still open.
C1_Witness ==
    /\ last.op = "checkin" /\ ~last.ok /\ last.msg = AlreadyElsewhere
    /\ last.uid \in Users
    /\ since[last.uid].fid # NoFacility /\ since[last.uid].fid # last.fid
    /\ ~since[last.uid].reset

\* a worker's call has returned
Done(w) == procs[w].pc = "idle" /\ procs[w].calls > 0

\* C2: N distinct users check in concurrently at the same facility, whose
\* count is 0, and nothing else is called: whatever the interleaving of the
\* store requests, the final count is N and the facility has N active records.
C2_NoLostUpdate ==
    \A f \in FacilityIds :
        ( /\ \A w \in Workers :
                /\ Done(w) /\ procs[w].calls = 1
                /\ procs[w].op = "checkin" /\ procs[w].fid = f
                /\ procs[w].uid \in Users /\ procs[w].ok
          /\ \A w1, w2 \in Workers : w1 # w2 => procs[w1].uid # procs[w2].uid )
        => /\ queue_count(DB, f) = Cardinality(Workers)
           /\ Cardinality(active_users(DB, f)) = Cardinality(Workers)

\* C3: a user has an active record in at most one facility, in every state,
\* also when the same user's check-ins at two facilities run concurrently.
C3_AtMostOneFacility ==
    \A u \in Users : Cardinality(FacilitiesOf(DB, u)) <= 1

\* C4: every stored count is >= 0 in every state that checkin, checkout and
\* reset reach, one after the other or interleaved request by request.
C4_CountNonNegative ==
    \A f \in DOMAIN queues : queues[f].count >= 0

\* C4 witness: two check-outs ran against a queue holding a single check-in
\* and both went through.
C4_Witness ==
    \E w1, w2 \in Workers :
        /\ w1 # w2 /\ Done(w1) /\ Done(w2)
        /\ procs[w1].op = "checkout" /\ procs[w1].ok
        /\ procs[w2].op = "checkout" /\ procs[w2].ok
        /\ procs[w1].fid = procs[w2].fid
        /\ queue_count(DB, procs[w1].fid) = 0
        /\ Cardinality({i \in DOMAIN history_of(DB, procs[w1].fid) :
                            history_of(DB, procs[w1].fid)[i].action = "checkin"}) = 1

DBnext == [facilities    |-> facilities',
           queues        |-> queues',
           active_queues |-> active_queues',
           history       |-> history']

\* C5: a successful checkin(f,u) immediately followed by checkout(f,u): the
\* checkout succeeds, the count of f is back at its value before the
\* check-in, and u has no active record.
C5_RoundTrip ==
    [][( /\ last.op = "checkin" /\ last.ok
         /\ last'.op = "checkout" /\ last'.fid = last.fid /\ last'.uid = last.uid )
       => /\ last'.ok
          /\ queue_count(DBnext, last.fid) = queue_count(prev, last.fid)
          /\ last'.ret = Some(queue_count(prev, last.fid))
          /\ FacilitiesOf(DBnext, last.uid) = {}]_vars

\* C5 witness: a check-out has just undone the check-in made right before it,
\* at a facility where somebody else was already counted.
C5_Witness ==
    /\ last.op = "checkout" /\ last.ok
    /\ history_of(prev, last.fid) # <<>>
    /\ LET h == history_of(prev, last.fid)
       IN  h[Len(h)].action = "checkin" /\ h[Len(h)].user_id = last.uid
    /\ queue_count(DB, last.fid) = 1

\* C6: checkout(f,u) of an identified user u: NotCheckedInAnywhere when u has
\* no active record; else CheckedInElsewhere when the record is at another
\* facility; else QueueAlreadyEmpty when the count of f is 0; the store is
\* left as it was in all three.  Otherwise the count drops by 1, u's active
\* record is removed and the new count is returned.
C6_Checkout ==
    (last.op = "checkout" /\ last.uid \in Users) =>
        LET f == last.fid
            u == last.uid
        IN  IF FacilitiesOf(prev, u) = {}
            THEN ~last.ok /\ last.msg = NotCheckedInAnywhere /\ DB = prev
            ELSE IF f \notin FacilitiesOf(prev, u)
            THEN ~last.ok /\ last.msg = CheckedInElsewhere /\ DB = prev
            ELSE IF queue_count(prev, f) = 0
            THEN ~last.ok /\ last.msg = QueueAlreadyEmpty /\ DB = prev
            ELSE /\ last.ok
                 /\ queue_count(DB, f) = queue_count(prev, f) - 1
                 /\ last.ret = Some(queue_count(DB, f))
                 /\ FacilitiesOf(DB, u) = {}

\* C6 witness: the last of the three refusals happened: the user is checked
\* in at the facility and its count is 0.
C6_Witness ==
    /\ last.op = "checkout" /\ last.uid \in Users
    /\ last.msg = QueueAlreadyEmpty
    /\ last.fid \in FacilitiesOf(DB, last.uid)

\* C7: when a store request fails inside checkin, checkout, reset or
\* create, the call reports failure and the store is as it was when the
\* call started.
C7_AllOrNothing ==
    \A w \in Workers :
        (Done(w) /\ procs[w].faulted) => (~procs[w].ok /\ DB = procs[w].start)

\* C8: checkin(f,u) succeeds only when f has a facility record that is
\* active; otherwise it is refused and leaves the store as it was.
C8_OnlyActiveFacility ==
    (last.op = "checkin") =>
        \/ (last.fid \in DOMAIN prev.facilities /\ prev.facilities[last.fid].active)
        \/ (~last.ok /\ DB = prev)

\* C8 for check-ins confirmed in the student view alone.
C8_ViaView ==
    (last.op = "checkin" /\ last.via = "view") =>
        \/ (last.fid \in DOMAIN prev.facilities /\ prev.facilities[last.fid].active)
        \/ (~last.ok /\ DB = prev)

\* C9: reset(f) succeeds; the count of f is 0; f has no active record; one
\* entry (action reset, count 0) is appended to the history of f and the
\* earlier entries stay; count, active records and history of every other
\* facility are as before; each user who was checked in at f is accepted by
\* a check-in at any facility.
C9_Reset ==
    (last.op = "reset") =>
        LET f == last.fid
        IN  /\ last.ok
            /\ f \in DOMAIN queues /\ queues[f].count = 0
            /\ active_users(DB, f) = {}
            /\ Len(history_of(DB, f)) = Len(history_of(prev, f)) + 1
            /\ SubSeq(history_of(DB, f), 1, Len(history_of(prev, f))) = history_of(prev, f)
            /\ history_of(DB, f)[Len(history_of(DB, f))].action = "reset"
            /\ history_of(DB, f)[Len(history_of(DB, f))].count = 0
            /\ \A g \in FacilityIds \ {f} :
                  /\ (g \in DOMAIN queues) = (g \in DOMAIN prev.queues)
                  /\ queue_count(DB, g) = queue_count(prev, g)
                  /\ active_users(DB, g) = active_users(prev, g)
                  /\ history_of(DB, g) = history_of(prev, g)
            /\ facilities = prev.facilities
            /\ \A u \in active_users(prev, f), g \in FacilityIds :
                  \A out \in checkin(DB, g, u) : out.ok

\* C9 witness: a reset cleared two users out of a facility.
C9_Witness ==
    /\ last.op = "reset"
    /\ Cardinality(active_users(prev, last.fid)) = 2
    /\ queue_count(prev, last.fid) = 2

\* C10: reset(f) of an identifier with no facility record fails with
\* "not found" and creates neither a queue nor a history entry for f.
C10_ResetNotFound ==
    (last.op = "reset" /\ last.fid \notin DOMAIN prev.facilities) =>
        /\ ~last.ok
        /\ last.msg = FacilityNotFound
        /\ DB = prev

-----------------------------------------------------------------------------
(* Properties of accounts and sessions *)

\* the record the last call of the auth manager looked up, before and after
RecordBefore == user_get(auth_prev.users, auth_last.uid)
RecordAfter  == user_get(users, auth_last.uid)

\* C11: login(e,p) succeeds if and only if a record exists at the identifier
\* derived from e, the record is active and the hash of p is the stored
\* hash; otherwise it fails with "not found" when there is no record, else
\* with "disabled" when the record is inactive (also when the password is
\* wrong as well), else with "invalid password".
C11_Login ==
    (auth_last.op = "login") =>
        LET exists == uid_of(auth_last.email) \in DOMAIN auth_prev.users
            rec    == user_get(auth_prev.users, uid_of(auth_last.email))
            active == exists /\ ("active" \in DOMAIN rec => rec.active)
            match  == /\ exists /\ "password" \in DOMAIN rec
                      /\ rec.password = hash_password(auth_last.password)
        IN  /\ auth_last.ok <=> (exists /\ active /\ match)
            /\ ~auth_last.ok =>
                  auth_last.msg = IF ~exists THEN UserNotFound
                                  ELSE IF ~active THEN AccountDisabled
                                  ELSE InvalidPassword

\* C11 witness: a login with the wrong password to a deactivated account was
\* refused as disabled.
C11_Witness ==
    /\ auth_last.op = "login" /\ auth_last.msg = AccountDisabled
    /\ "password" \in DOMAIN RecordBefore
    /\ RecordBefore.password # hash_password(auth_last.password)

\* C12: after a successful login with an email of the super-admin
\* allow-list the stored role is SuperAdmin and so is the role of the
\* returned session, whatever the stored role was; after a successful login
\* with any other email the stored role is what it was and the session
\* carries it.
C12_SuperAdminOverride ==
    (auth_last.op = "login" /\ auth_last.ok) =>
        IF auth_last.email \in SUPER_ADMIN_EMAILS
        THEN /\ RecordAfter.role = ROLES.SUPER_ADMIN
             /\ auth_last.session.role = ROLES.SUPER_ADMIN
        ELSE /\ RecordAfter.role = RecordBefore.role
             /\ auth_last.session.role = RecordBefore.role

\* C12 witness: an allow-listed login to a record whose role had been set
\* to Admin through update_user_role.
C12_Witness ==
    /\ auth_last.op = "login" /\ auth_last.ok
    /\ auth_last.email \in SUPER_ADMIN_EMAILS
    /\ RecordBefore.role = ROLES.ADMIN
    /\ "last_login" \in DOMAIN RecordBefore

\* C13: register for an email whose identifier already has a record fails
\* with "already exists", whatever password and name it carries, and the
\* directory is as before; register on a free identifier stores a record
\* with the email, the name, the hash of the password, role Student,
\* active = true and points 0.
C13_Register ==
    (auth_last.op = "register") =>
        IF auth_last.uid \in DOMAIN auth_prev.users
        THEN /\ ~auth_last.ok /\ auth_last.msg = UserExists
             /\ users = auth_prev.users
        ELSE /\ auth_last.ok
             /\ DOMAIN users = DOMAIN auth_prev.users \cup {auth_last.uid}
             /\ RecordAfter = [email |-> auth_last.email, name |-> auth_last.name,
                               password |-> hash_password(auth_last.password),
                               role |-> ROLES.STUDENT, points |-> 0, active |-> TRUE]

\* C13 witness: a registration carrying another email, another password and
\* another name than the record on its identifier was refused.
C13_Witness ==
    /\ auth_last.op = "register" /\ ~auth_last.ok
    /\ "email" \in DOMAIN RecordBefore
    /\ RecordBefore.email # auth_last.email
    /\ RecordBefore.name # auth_last.name
    /\ RecordBefore.password # hash_password(auth_last.password)

\* C14: the identifier derived from an email is the identifier of that
\* email alone: the record registered under the identifier of a campus
\* email carries that email, so two distinct emails never meet on one
\* record.
C14_DeriveIdInjective ==
    \A e \in Emails :
        (uid_of(e) \in DOMAIN users /\ "email" \in DOMAIN users[uid_of(e)])
            => users[uid_of(e)].email = e

\* the rank table of the access control contract
RankOf(role) == CASE role = ROLES.STUDENT     -> 1
                  [] role = ROLES.ADMIN       -> 2
                  [] role = ROLES.SUPER_ADMIN -> 3
                  [] OTHER                    -> 0

KnownRoles == {ROLES.STUDENT, ROLES.ADMIN, ROLES.SUPER_ADMIN}

\* the session was authenticated when the last call started
WasAuthenticated ==
    /\ auth_prev.session # NoSession
    /\ auth_prev.now - auth_prev.session.login_time <= SESSION_TIMEOUT

\* C15: has_role(required) is true if and only if the session is
\* authenticated, the account of the session's user is active at that
\* moment and the rank of the session's role is at least the rank required.
C15_AuthorizeActiveOnly ==
    (auth_last.op = "has_role" /\ auth_last.role \in KnownRoles) =>
        ( auth_last.result <=>
            /\ WasAuthenticated
            /\ dict_get(user_get(users, auth_prev.session.uid), "active", TRUE)
            /\ RankOf(auth_prev.session.role) >= RankOf(auth_last.role) )

\* C16: for an authenticated session of role r2 and a required role r1 of
\* the three known roles, has_role(r1) is true exactly when
\* rank(r1) <= rank(r2); a session whose role is none of the three is
\* refused for every known required role.
C16_RoleOrdering ==
    (auth_last.op = "has_role" /\ auth_last.role \in KnownRoles /\ WasAuthenticated) =>
        /\ auth_last.result <=> (RankOf(auth_last.role) <= RankOf(auth_prev.session.role))
        /\ auth_prev.session.role \notin KnownRoles => ~auth_last.result

\* C16 witness: an Admin session was asked for Admin and accepted.
C16_Witness ==
    /\ auth_last.op = "has_role" /\ auth_last.role = ROLES.ADMIN
    /\ WasAuthenticated /\ auth_prev.session.role = ROLES.ADMIN
    /\ auth_last.result

\* what C17 says of the call that has just returned
C17_Call ==
    (auth_last.op \in {"is_authenticated", "has_role"}) =>
        IF auth_prev.session = NoSession
        THEN ~auth_last.result /\ session = NoSession
        ELSE IF auth_prev.now - auth_prev.session.login_time > SESSION_TIMEOUT
        THEN ~auth_last.result /\ session = NoSession
        ELSE /\ session = auth_prev.session
             /\ auth_last.op = "is_authenticated" => auth_last.result

\* C17: once more than the session timeout has elapsed since the login
\* time, is_authenticated answers false, the session user is cleared and
\* has_role is false for every role; a cleared session stays cleared until
\* a login succeeds; before the timeout has elapsed the session stays
\* authenticated.
C17_SessionExpiry ==
    [][ /\ C17_Call'
        /\ (session = NoSession /\ session' # NoSession)
              => (auth_last'.op = "login" /\ auth_last'.ok) ]_vars

\* C17 witness: is_authenticated found the session one minute past the
\* timeout and cleared it.
C17_Witness ==
    /\ auth_last.op = "is_authenticated" /\ ~auth_last.result
    /\ auth_prev.session # NoSession
    /\ auth_prev.now - auth_prev.session.login_time = SESSION_TIMEOUT + 1
    /\ session = NoSession

\* C18: update_user_role for an identifier with no record fails with "not
\* found" and creates no record, so that a later register for an email of
\* that identifier is not refused.
C18_SetRoleNotFound ==
    /\ (auth_last.op = "update_user_role" /\ auth_last.uid \notin DOMAIN auth_prev.users)
          => /\ ~auth_last.ok /\ auth_last.msg = UserNotFound
             /\ users = auth_prev.users
    /\ (auth_last.op = "register" /\ ~auth_last.ok) => "email" \in DOMAIN RecordBefore

-----------------------------------------------------------------------------
(* Properties of the facility registry *)

\* C19: create(name, ...) fails with "already exists", and leaves the
\* store as it was, whenever a facility record, active or soft-deleted,
\* occupies the identifier derived from name; otherwise it stores an active
\* facility under that identifier, sets the count of that identifier to 0
\* and touches no other facility or queue.
C19_Create ==
    (last.op = "create") =>
        LET f == last.fid
        IN  IF f \in DOMAIN prev.facilities
            THEN ~last.ok /\ last.msg = AlreadyExists /\ DB = prev
            ELSE /\ last.ok
                 /\ f \in DOMAIN facilities /\ facilities[f].active
                 /\ facilities[f].id = f
                 /\ facility_id_of(facilities[f].name) = f
                 /\ f \in DOMAIN queues /\ queues[f].count = 0
                 /\ \A g \in DOMAIN prev.facilities : facilities[g] = prev.facilities[g]
                 /\ \A g \in DOMAIN prev.queues \ {f} : queues[g] = prev.queues[g]
                 /\ DOMAIN facilities = DOMAIN prev.facilities \cup {f}
                 /\ DOMAIN queues = DOMAIN prev.queues \cup {f}

\* C19 witness: a create was refused because a soft-deleted record holds
\* the identifier.
C19_Witness ==
    /\ last.op = "create" /\ ~last.ok /\ last.msg = AlreadyExists
    /\ last.fid \in DOMAIN prev.facilities
    /\ ~prev.facilities[last.fid].active

\* the entries a listing holds for facility f
EntriesOf(listing, f) == {listing[i] : i \in {j \in DOMAIN listing : listing[j].id = f}}

\* what C20 says of the delete or restore that has just returned
C20_Call ==
    (last.op \in {"delete", "restore"}) =>
        LET f == last.fid
        IN  IF f \notin DOMAIN prev.facilities
            THEN ~last.ok /\ last.msg = FacilityNotFound /\ DB = prev
            ELSE /\ last.ok
                 /\ last.op = "delete" =>
                       /\ EntriesOf(get_all_facilities(DB, FALSE), f) = {}
                       /\ EntriesOf(get_all_facilities(DB, TRUE), f) =
                             {facility_entry(f, [prev.facilities[f] EXCEPT !.active = FALSE])}
                 /\ last.op = "restore" =>
                       EntriesOf(get_all_facilities(DB, FALSE), f) =
                             {facility_entry(f, [prev.facilities[f] EXCEPT !.active = TRUE])}

\* C20: after a soft delete the listing without inactive facilities does
\* not hold the facility and the listing with them holds it with
\* active = false; after a restore that follows, the listing without
\* inactive facilities holds it again, every other field as before the
\* delete.  Soft delete and restore of an identifier with no record fail
\* with "not found" and create nothing.
C20_SoftDeleteRestore ==
    /\ []C20_Call
    /\ [][ ( /\ last.op = "delete" /\ last.ok
             /\ last'.op = "restore" /\ last'.fid = last.fid )
           => EntriesOf(get_all_facilities(DBnext, FALSE), last.fid) =
                 {facility_entry(last.fid, [prev.facilities[last.fid] EXCEPT !.active = TRUE])} ]_vars

\* C20 witness: a soft-deleted facility has just been restored while
\* another facility is listed with it.
C20_Witness ==
    /\ last.op = "restore" /\ last.ok
    /\ ~prev.facilities[last.fid].active
    /\ Len(get_all_facilities(DB, FALSE)) = 2
    /\ Len(get_all_facilities(prev, FALSE)) = 1

-----------------------------------------------------------------------------
(* Properties of the tracker, continued *)

\* what a checkout returns, without the store it leaves
Answers(outs) == {<<o.ok, o.ret, o.msg>> : o \in outs}

\* C21: a soft delete changes the active flag of the facility record and
\* nothing else: counts, active records and history are as before, so the
\* users checked in at the facility are still checked in there, the check
\* out button of the student view is still offered to them, and their
\* checkout is answered as it would have been before the delete: it
\* succeeds whenever the count is not 0.
C21_SoftDeleteFrame ==
    (last.op = "delete" /\ last.ok) =>
        LET f == last.fid
        IN  /\ queues = prev.queues
            /\ active_queues = prev.active_queues
            /\ history = prev.history
            /\ DOMAIN facilities = DOMAIN prev.facilities
            /\ \A g \in DOMAIN facilities \ {f} : facilities[g] = prev.facilities[g]
            /\ facilities[f] = [prev.facilities[f] EXCEPT !.active = FALSE]
            /\ \A u \in active_users(prev, f) :
                  /\ get_user_current_facility(DB, u) = {f}
                  /\ get_facility(DB, f)
                  /\ Answers(checkout(DB, f, u)) = Answers(checkout(prev, f, u))
                  /\ queue_count(DB, f) > 0 => \A o \in checkout(DB, f, u) : o.ok

\* C21 witness: a facility with two users checked in has just been
\* soft-deleted.
C21_Witness ==
    /\ last.op = "delete" /\ last.ok
    /\ prev.facilities[last.fid].active
    /\ Cardinality(active_users(DB, last.fid)) = 2
    /\ queue_count(DB, last.fid) = 2

\* C25: the history of a facility only grows at its end: a successful
\* checkin, checkout or reset appends exactly one entry, of the action of
\* the call and with the count the facility has right after the call; a
\* failed checkin or checkout, and every other call, leaves every history
\* as it was; no entry is ever removed or changed.
C25_HistoryAppendOnly ==
    \A f \in FacilityIds :
        LET before == history_of(prev, f)
            after  == history_of(DB, f)
        IN  IF last.op \in {"checkin", "checkout", "reset"} /\ last.ok /\ last.fid = f
            THEN /\ Len(after) = Len(before) + 1
                 /\ SubSeq(after, 1, Len(before)) = before
                 /\ after[Len(after)].action = last.op
                 /\ after[Len(after)].count = queue_count(DB, f)
            ELSE after = before

\* C25 witness: a checkout has appended the third entry of a history.
C25_Witness ==
    /\ last.op = "checkout" /\ last.ok
    /\ Len(history_of(DB, last.fid)) = 3
    /\ history_of(DB, last.fid)[3].action = "checkout"
    /\ history_of(DB, last.fid)[3].count = 1

\* C30: checkin(f,u) of a user with no active record succeeds and raises
\* the count of f by exactly 1, whatever the count and the capacity of f.
C30_NoCapacityBound ==
    (last.op = "checkin" /\ last.uid \in Users /\ FacilitiesOf(prev, last.uid) = {}) =>
        /\ last.ok
        /\ queue_count(DB, last.fid) = queue_count(prev, last.fid) + 1
        /\ last.ret = Some(queue_count(prev, last.fid) + 1)

\* C30 witness: a check-in went through at a facility whose count had
\* already passed its capacity.
C30_Witness ==
    /\ last.op = "checkin" /\ last.ok
    /\ last.fid \in DOMAIN prev.facilities
    /\ prev.facilities[last.fid].active
    /\ queue_count(prev, last.fid) >= prev.facilities[last.fid].capacity
    /\ queue_count(DB, last.fid) > facilities[last.fid].capacity

-----------------------------------------------------------------------------
(* Properties of the facility registry, continued *)

\* C26: update(id, fields) of an existing facility overwrites exactly the
\* provided fields and the update metadata; every other field of the
\* record (the active flag and the identifier among them), every other
\* facility, and all counts, active records and histories are as before.
\* On an identifier with no record it fails with "not found" and creates
\* nothing.
C26_Update ==
    (last.op = "update") =>
        LET f == last.fid
            updates == last.other
        IN  IF f \notin DOMAIN prev.facilities
            THEN ~last.ok /\ last.msg = FacilityNotFound /\ DB = prev
            ELSE /\ last.ok
                 /\ DOMAIN facilities = DOMAIN prev.facilities
                 /\ \A g \in DOMAIN facilities \ {f} : facilities[g] = prev.facilities[g]
                 /\ DOMAIN facilities[f] =
                       DOMAIN prev.facilities[f] \cup DOMAIN updates \cup {"updated_by"}
                 /\ \A k \in DOMAIN updates : facilities[f][k] = updates[k]
                 /\ \A k \in DOMAIN prev.facilities[f] \ (DOMAIN updates \cup {"updated_by"}) :
                       facilities[f][k] = prev.facilities[f][k]
                 /\ queues = prev.queues
                 /\ active_queues = prev.active_queues
                 /\ history = prev.history

\* C26 witness: the capacity alone of a soft-deleted facility with a user
\* checked in was updated.
C26_Witness ==
    /\ last.op = "update" /\ last.ok
    /\ DOMAIN last.other = {"capacity"}
    /\ ~prev.facilities[last.fid].active
    /\ prev.facilities[last.fid].capacity # last.other.capacity
    /\ queue_count(DB, last.fid) = 1

\* C27: the identifier of every stored facility is the identifier derived
\* from its current name, and a create is refused as "already exists" only
\* when a stored facility carries a name that derives the same identifier.
C27_IdDerivedFromName ==
    /\ \A f \in DOMAIN facilities : facility_id_of(facilities[f].name) = f
    /\ (last.op = "create" /\ ~last.ok) =>
          \E g \in DOMAIN prev.facilities :
              facility_id_of(prev.facilities[g].name) = last.fid

-----------------------------------------------------------------------------
(* Properties of accounts and sessions, continued *)

\* C28: the activate/deactivate action of the admin interface is enabled
\* for every authenticated session of role Admin or SuperAdmin and for no
\* Student session.
C28_ToggleForAdmins ==
    (session # NoSession /\ ~session_expired(now, session.login_time)) =>
        /\ session.role \in {ROLES.ADMIN, ROLES.SUPER_ADMIN}
              => user_management_shown(session, now)
        /\ session.role = ROLES.STUDENT => ~user_management_shown(session, now)

-----------------------------------------------------------------------------
(* Properties of the read-only queries *)

\* the figures of a statistics record: percentage and waiting time
StatFigures(st, count, capacity, avg_time) ==
    /\ st.occupancy_percentage.den > 0
    /\ IF capacity = 0 THEN ratio_eq(st.occupancy_percentage, Ratio(0, 1))
       ELSE ratio_eq(st.occupancy_percentage, Ratio(count * 100, capacity))
    /\ st.wait_time = count * avg_time

\* the status buckets by cross-multiplication
StatBuckets(st, count, capacity) ==
    /\ count * 100 < 40 * capacity => st.status.text = "Low"
    /\ (40 * capacity <= count * 100 /\ count * 100 < 70 * capacity)
          => st.status.text = "Moderate"
    /\ count * 100 >= 70 * capacity => st.status.text = "High"

\* the statistics call answers nothing exactly when the record is missing
StatOption == (calc.result = None) <=> (calc.fid \notin DOMAIN facilities)

\* C22 as stated: get_facility_stats reports count*100/capacity (0 when the
\* capacity is 0), count * avgTime, and the status by count*100 against
\* 40*capacity and 70*capacity; it answers nothing exactly when there is
\* no facility record.
C22_Stats ==
    calc.op = "get_facility_stats" =>
        /\ StatOption
        /\ calc.result # None =>
             LET st == calc.result[1]
                 count == queue_count(DB, calc.fid)
                 facility == facilities[calc.fid]
             IN  /\ StatFigures(st, count, facility.capacity, facility.avg_time_per_person)
                 /\ StatBuckets(st, count, facility.capacity)

\* C22 amended: as C22, with the status taken from the reported
\* percentage, so that a facility of capacity 0 is Low whatever its count.
C22_StatsByPercentage ==
    calc.op = "get_facility_stats" =>
        /\ StatOption
        /\ calc.result # None =>
             LET st == calc.result[1]
                 count == queue_count(DB, calc.fid)
                 facility == facilities[calc.fid]
             IN  /\ StatFigures(st, count, facility.capacity, facility.avg_time_per_person)
                 /\ IF facility.capacity = 0 THEN st.status.text = "Low"
                    ELSE StatBuckets(st, count, facility.capacity)

\* the scenario: capacity 50, 3 minutes each, 20 checked in
C22_Witness ==
    /\ calc.op = "get_facility_stats"
    /\ calc.result # None
    /\ facilities[calc.fid].capacity = 50
    /\ facilities[calc.fid].avg_time_per_person = 3
    /\ queue_count(DB, calc.fid) = 20
    /\ ratio_eq(calc.result[1].occupancy_percentage, Ratio(40, 1))
    /\ calc.result[1].wait_time = 60
    /\ calc.result[1].status.text = "Moderate"

\* C23: the text generated for a facility is the prefix followed by the
\* identifier, and scanning it is accepted and yields the identifier.
C23_QrRoundTrip ==
    /\ calc.op = "generate_facility_qr" => calc.result = QrPrefix \o calc.fid
    /\ calc.op = "display_qr_scanner" =>
          calc.result.valid /\ calc.result.facility_id = calc.fid

\* C24: validate_qr_data accepts exactly the texts that start with the
\* prefix and returns all that follows it; every other text, the empty one
\* included, is refused as invalid.
C24_Decode ==
    calc.op = "validate_qr_data" =>
        LET s == calc.qr_data
            r == calc.result
        IN  /\ r.valid <=> startswith(s, QrPrefix)
            /\ r.valid => r.facility_id = SubSeq(s, Len(QrPrefix) + 1, Len(s))
            /\ ~r.valid => r.facility_id = NoneText /\ r.msg = InvalidQr

\* C29: get_queue_history returns min(limit, n) of the n entries recorded,
\* each once, from the most recent timestamp to the oldest, none of those
\* left out more recent than one returned; nothing recorded gives <<>>.
C29_History ==
    calc.op = "get_queue_history" =>
        LET h == history_of(DB, calc.fid)
            n == Len(h)
            r == calc.result
            ids == {r[k].id : k \in 1..Len(r)}
        IN  /\ Len(r) = IF calc.limit < n THEN calc.limit ELSE n
            /\ n = 0 => r = <<>>
            /\ \A k \in 1..Len(r) :
                  /\ r[k].id \in 1..n
                  /\ r[k].timestamp = h[r[k].id].timestamp
                  /\ r[k].action = h[r[k].id].action
            /\ Cardinality(ids) = Len(r)
            /\ \A j, k \in 1..Len(r) : j < k => r[j].timestamp >= r[k].timestamp
            /\ \A m \in (1..n) \ ids : \A k \in 1..Len(r) :
                  h[m].timestamp <= r[k].timestamp

\* three entries pushed with rising timestamps, the two latest asked for
C29_Witness ==
    /\ calc.op = "get_queue_history"
    /\ calc.limit = 2
    /\ Len(history_of(DB, calc.fid)) = 3
    /\ \A i \in 1..2 : history_of(DB, calc.fid)[i].timestamp
                          < history_of(DB, calc.fid)[i + 1].timestamp
    /\ Len(calc.result) = 2
    /\ calc.result[1].id = 3

-----------------------------------------------------------------------------
(* Properties of whole runs of the tracker *)

\* C31: a user with an active record at a facility can check out of it: in
\* every state reached by whole create, soft delete, restore, check-in,
\* check-out and reset calls, checkout(f,u) of such a user succeeds and is
\* not refused because the queue is already empty.
C31_CanAlwaysCheckOut ==
    \A f \in FacilityIds, u \in Users :
        u \in active_users(DB, f) =>
            \A out \in checkout(DB, f, u) : out.ok /\ out.msg # QueueAlreadyEmpty

\* C32: in every state reached by whole calls made by identified users,
\* the count of each facility is the number of its active records.
C32_CountIsActiveRecords ==
    \A f \in FacilityIds : queue_count(DB, f) = Cardinality(active_users(DB, f))

-----------------------------------------------------------------------------
(* Properties of logins *)

\* C33: a successful login raises the role of a record only when the email
\* stored in that record is in the super-admin allow-list; a login with
\* another email of the same identifier leaves the stored role as it was.
C33_EscalationByStoredEmail ==
    (/\ auth_last.op = "login" /\ auth_last.ok
     /\ dict_get(RecordBefore, "email", None) \notin SUPER_ADMIN_EMAILS) =>
        /\ RecordAfter.role = RecordBefore.role
        /\ auth_last.session.role = RecordBefore.role

\* C34: a login that fails, with "not found", "disabled" or "invalid
\* password", writes nothing: every user record is as it was, role and
\* last login included, also for an allow-listed email, and no session is
\* returned or stored.
C34_FailedLoginFrame ==
    (auth_last.op = "login" /\ ~auth_last.ok) =>
        /\ auth_last.msg \in {UserNotFound, AccountDisabled, InvalidPassword}
        /\ users = auth_prev.users
        /\ auth_last.session = NoSession
        /\ session = auth_prev.session

\* C34 witness: a login with an allow-listed email and a wrong password was
\* refused for a record that is not a super admin and has logged in before.
C34_Witness ==
    /\ auth_last.op = "login" /\ ~auth_last.ok
    /\ auth_last.msg = InvalidPassword
    /\ auth_last.email \in SUPER_ADMIN_EMAILS
    /\ RecordAfter.role # ROLES.SUPER_ADMIN
    /\ "last_login" \in DOMAIN RecordAfter

-----------------------------------------------------------------------------
(* Properties of the student overview *)

\* C35: the status shown on a facility's card of the student overview is
\* the status the facility service computes for the same count and
\* capacity, and the one get_facility_stats reports, a capacity of 0
\* included.
C35_OverviewStatus ==
    calc.op = "display_all_facilities_overview" =>
        \A i \in 1..Len(calc.result) :
            LET card == calc.result[i]
                capacity == facilities[card.id].capacity
            IN  /\ card.count = queue_count(DB, card.id)
                /\ card.status_text = get_status(card.count, capacity).text
                /\ card.status_text = get_facility_stats(DB, card.id)[1].status.text

\* C35 witness: the overview showed a facility of capacity 0 that holds
\* check-ins.
C35_Witness ==
    /\ calc.op = "display_all_facilities_overview"
    /\ \E i \in 1..Len(calc.result) :
          /\ facilities[calc.result[i].id].capacity = 0
          /\ calc.result[i].count > 0
          /\ calc.result[i].status_text = "Low"
=============================================================================
